---------------------------- MODULE Spec2Model ----------------------------
(***************************************************************************)
(* A model of huffman-rs: frequency counting (src/src/freqs.rs), Huffman   *)
(* tree construction (src/src/huffman.rs) and the encoder / decoder tables *)
(* and line codec (src/src/compression.rs).                                *)
(*                                                                         *)
(* Strings are sequences of one-character strings, bit vectors are         *)
(* sequences over {0, 1}, a HashMap is a function whose DOMAIN is its key  *)
(* set, and an Option is a sequence of length 0 (None) or 1 (Some).        *)
(***************************************************************************)
EXTENDS Integers, Sequences, FiniteSets, TLC

(***************************************************************************)
(* Bounds of the model.                                                    *)
(***************************************************************************)
\* largest count of one symbol in a frequency table handed to the builder
MaxFreq == 3
\* longest symbol sequence handed to Tree::encode
MaxData == 2
\* most lines handed to the frequency counter
MaxLines == 2
\* most local tables (rayon fold accumulators) alive at once
MaxWorkers == 3
\* most lines handed to compress_as_chars / compress_as_words
MaxCodecLines == 2

\* the symbols frequency tables are drawn over
Symbols == {"a", "b", "c", "d"}
\* a fixed enumeration of Symbols
SymbolOrder == <<"a", "b", "c", "d">>

VARIABLES
    pc,        \* the position of the run
    lines,     \* the input lines
    mode,      \* "chars" or "words": the tokenizer in use
    freqs,     \* HashMap<T, i64>: the frequency table
    unfolded,  \* indices of the lines no worker has folded yet
    locals,    \* the workers' local tables (rayon fold accumulators)
    owner,     \* per line, the local table it was folded into (0: not yet)
    pending,   \* keys of freqs not yet pushed on the heap
    heap,      \* BinaryHeap<Reverse<Tree<T>>>: its backing vector
    merges,    \* number of iterations of the merge loop so far
    tree,      \* Option<Tree<T>>: the tree build_huffman_tree returned
    encoder,   \* HashMap<T, BitVec>
    decoder,   \* HashMap<BitVec, T>
    tdata,     \* the argument of Tree::encode
    tcoded,    \* the result of Tree::encode
    tdecoded,  \* the result of Tree::decode
    data,      \* Vec<BitVec>: the encoded lines of the container
    truncated, \* index of the line whose payload lost its last bit, or 0
    pos,       \* decompress, per line: the next bit to read
    candidate, \* decompress, per line: the bits read since the last match
    tokens,    \* decompress, per line: the tokens decoded so far
    out        \* decompress, per line: Option<String>, the line produced

vars == <<pc, lines, mode, freqs, unfolded, locals, owner, pending, heap, merges,
          tree, encoder, decoder, tdata, tcoded, tdecoded,
          data, truncated, pos, candidate, tokens, out>>

freqVars == <<lines, mode, unfolded, locals, owner>>
treeVars == <<pending, heap, merges, tree>>
tableVars == <<encoder, decoder>>
tcodeVars == <<tdata, tcoded, tdecoded>>
codecVars == <<data, truncated, pos, candidate, tokens, out>>

(***************************************************************************)
(* Generic helpers.                                                        *)
(***************************************************************************)
EmptyMap == <<>>

BoundedSeq(S, n) == UNION {[1..k -> S] : k \in 0..n}

\* the orders in which a HashMap with key set S may be iterated
RECURSIVE Perms(_)
Perms(S) ==
    IF S = {} THEN {<<>>}
    ELSE UNION {{<<x>> \o p : p \in Perms(S \ {x})} : x \in S}

\* HashMap::insert
MapInsert(m, k, v) == [x \in DOMAIN m \cup {k} |-> IF x = k THEN v ELSE m[x]]

RECURSIVE SumOver(_, _)
SumOver(f, S) ==
    IF S = {} THEN 0
    ELSE LET x == CHOOSE y \in S : TRUE IN f[x] + SumOver(f, S \ {x})

IsPrefix(p, q) == Len(p) <= Len(q) /\ SubSeq(q, 1, Len(p)) = p

(***************************************************************************)
(* enum Tree<T> { Leaf { freq, token }, Node { freq, left, right } }       *)
(***************************************************************************)
Leaf(f, t) == [kind |-> "Leaf", freq |-> f, token |-> t]

Node(f, l, r) == [kind |-> "Node", freq |-> f, left |-> l, right |-> r]

\* the comparison without std::cmp::Reverse: a max-heap on frequency
RevLe_unreversed(x, y) == x.freq <= y.freq

\* impl Ord for Tree, seen through std::cmp::Reverse: Reverse(x) <= Reverse(y)
RevLe(x, y) == y.freq <= x.freq

(***************************************************************************)
(* std::collections::BinaryHeap on its backing vector (1-based here).      *)
(* sift_up(vec, start, hole, elem): elem is the element out of the hole.    *)
(***************************************************************************)
RECURSIVE sift_up(_, _, _, _)
sift_up(vec, start, hole, elem) ==
    IF hole > start
    THEN LET parent == hole \div 2
         IN  IF RevLe(elem, vec[parent])
             THEN [vec EXCEPT ![hole] = elem]
             ELSE sift_up([vec EXCEPT ![hole] = vec[parent]], start, parent, elem)
    ELSE [vec EXCEPT ![hole] = elem]

RECURSIVE sift_down_to_bottom(_, _, _, _)
sift_down_to_bottom(vec, start, hole, elem) ==
    LET end == Len(vec)
        child == 2 * hole
    IN  IF child + 1 <= end
        THEN LET c == IF RevLe(vec[child], vec[child + 1]) THEN child + 1 ELSE child
             IN  sift_down_to_bottom([vec EXCEPT ![hole] = vec[c]], start, c, elem)
        ELSE IF child = end
             THEN sift_up([vec EXCEPT ![hole] = vec[child]], start, child, elem)
             ELSE sift_up(vec, start, hole, elem)

\* heap.push(Reverse(item))
heap_push(vec, item) == sift_up(Append(vec, item), 1, Len(vec) + 1, item)

\* heap.pop(): [item |-> Option, heap |-> the vector left]
heap_pop(vec) ==
    IF vec = <<>>
    THEN [item |-> <<>>, heap |-> <<>>]
    ELSE LET last == vec[Len(vec)]
             rest == SubSeq(vec, 1, Len(vec) - 1)
         IN  IF rest = <<>>
             THEN [item |-> <<last>>, heap |-> <<>>]
             ELSE [item |-> <<rest[1]>>,
                   heap |-> sift_down_to_bottom(rest, 1, 1, last)]

(***************************************************************************)
(* build_huffman_tree, as a function of the table and of the order in      *)
(* which the HashMap yields its entries.                                   *)
(***************************************************************************)
RECURSIVE push_leaves(_, _, _)
push_leaves(vec, table, order) ==
    IF order = <<>>
    THEN vec
    ELSE push_leaves(heap_push(vec, Leaf(table[Head(order)], Head(order))),
                     table, Tail(order))

\* a merge whose node carries the first child's frequency only
merge_step_nosum(vec) ==
    LET p1 == heap_pop(vec)
        p2 == heap_pop(p1.heap)
        node1 == p1.item[1]
        node2 == p2.item[1]
    IN  heap_push(p2.heap, Node(node1.freq, node1, node2))

\* one iteration of `while heap.len() > 1`
merge_step(vec) ==
    LET p1 == heap_pop(vec)
        p2 == heap_pop(p1.heap)
        node1 == p1.item[1]
        node2 == p2.item[1]
    IN  heap_push(p2.heap, Node(node1.freq + node2.freq, node1, node2))

RECURSIVE merge_loop(_)
merge_loop(vec) == IF Len(vec) > 1 THEN merge_loop(merge_step(vec)) ELSE vec

\* the Option heap.pop() gives at the end: None makes unwrap() panic
build_huffman_tree(table, order) ==
    heap_pop(merge_loop(push_leaves(<<>>, table, order))).item

(***************************************************************************)
(* Tree::to_encoder: the loop over the explicit stack.                     *)
(***************************************************************************)
\* a traversal that pushes the right child with its parent's path
RECURSIVE to_encoder_loop_samepath(_, _)
to_encoder_loop_samepath(stack, enc) ==
    IF stack = <<>>
    THEN enc
    ELSE LET top == stack[Len(stack)]
             rest == SubSeq(stack, 1, Len(stack) - 1)
             node == top[1]
             path == top[2]
         IN  IF node.kind = "Leaf"
             THEN to_encoder_loop_samepath(rest, MapInsert(enc, node.token, path))
             ELSE to_encoder_loop_samepath(
                      rest \o << <<node.left, Append(path, 0)>>,
                                 <<node.right, path>> >>,
                      enc)

\* a traversal with the bits exchanged: 1 for left, 0 for right
RECURSIVE to_encoder_loop_swapped(_, _)
to_encoder_loop_swapped(stack, enc) ==
    IF stack = <<>>
    THEN enc
    ELSE LET top == stack[Len(stack)]
             rest == SubSeq(stack, 1, Len(stack) - 1)
             node == top[1]
             path == top[2]
         IN  IF node.kind = "Leaf"
             THEN to_encoder_loop_swapped(rest, MapInsert(enc, node.token, path))
             ELSE to_encoder_loop_swapped(
                      rest \o << <<node.left, Append(path, 1)>>,
                                 <<node.right, Append(path, 0)>> >>,
                      enc)

RECURSIVE to_encoder_loop(_, _)
to_encoder_loop(stack, enc) ==
    IF stack = <<>>
    THEN enc
    ELSE LET top == stack[Len(stack)]
             rest == SubSeq(stack, 1, Len(stack) - 1)
             node == top[1]
             path == top[2]
         IN  IF node.kind = "Leaf"
             THEN to_encoder_loop(rest, MapInsert(enc, node.token, path))
             ELSE to_encoder_loop(
                      rest \o << <<node.left, Append(path, 0)>>,
                                 <<node.right, Append(path, 1)>> >>,
                      enc)

to_encoder(t) == to_encoder_loop(<< <<t, <<>> >> >>, EmptyMap)

(***************************************************************************)
(* Tree::to_decoder: insert (prefix, token) for the encoder's entries, in  *)
(* the order the HashMap yields them; a later insert replaces an earlier.  *)
(***************************************************************************)
RECURSIVE to_decoder_loop(_, _, _)
to_decoder_loop(enc, order, dec) ==
    IF order = <<>>
    THEN dec
    ELSE to_decoder_loop(enc, Tail(order),
                         MapInsert(dec, enc[Head(order)], Head(order)))

to_decoder(enc, order) == to_decoder_loop(enc, order, EmptyMap)

\* Tree::encode: one codeword per item
tree_encode(t, items) ==
    LET enc == to_encoder(t) IN [i \in 1..Len(items) |-> enc[items[i]]]

\* Tree::decode, once self.to_decoder(None) gave dec: one item per codeword
\* the decoders to_decoder may give for an encoder, over the orders in which
\* the HashMap may yield its entries
decoders(enc) == {to_decoder(enc, order) : order \in Perms(DOMAIN enc)}

tree_decode(dec, codes) == [i \in 1..Len(codes) |-> dec[codes[i]]]

(***************************************************************************)
(* Measures on trees and tables, used by the properties.                   *)
(***************************************************************************)
RECURSIVE LeafSeq(_)
LeafSeq(t) ==
    IF t.kind = "Leaf" THEN << <<t.token, t.freq>> >>
    ELSE LeafSeq(t.left) \o LeafSeq(t.right)

RECURSIVE SumsOk(_)
SumsOk(t) ==
    t.kind = "Node" =>
        /\ t.freq = t.left.freq + t.right.freq
        /\ SumsOk(t.left)
        /\ SumsOk(t.right)

RECURSIVE SeqFreqSum(_)
SeqFreqSum(s) == IF s = <<>> THEN 0 ELSE Head(s).freq + SeqFreqSum(Tail(s))

Total(table) == SumOver(table, DOMAIN table)

\* the frequency tables the builder is run on
GoldenTable == [s \in Symbols |-> CASE s = "a" -> 40 [] s = "b" -> 35
                                    [] s = "c" -> 20 [] OTHER -> 5]

Tables == UNION {[D -> 1..MaxFreq] : D \in SUBSET Symbols} \cup {GoldenTable}

\* the codec's variables while no container is being handled
CodecIdle ==
    /\ data = <<>>
    /\ truncated = 0
    /\ pos = <<>>
    /\ candidate = <<>>
    /\ tokens = <<>>
    /\ out = <<>>

(***************************************************************************)
(* The tree builder and table deriver, step by step.                       *)
(***************************************************************************)
InitTree ==
    /\ pc = "push"
    /\ lines = <<>>
    /\ mode = "chars"
    /\ freqs \in Tables
    /\ unfolded = {}
    /\ locals = <<>>
    /\ owner = <<>>
    /\ pending = DOMAIN freqs
    /\ heap = <<>>
    /\ merges = 0
    /\ tree = <<>>
    /\ encoder = EmptyMap
    /\ decoder = EmptyMap
    /\ tdata = <<>>
    /\ tcoded = <<>>
    /\ tdecoded = <<>>
    /\ CodecIdle

\* for (token, freq) in freqs { heap.push(Reverse(Leaf { freq, token })) }
PushLeaf ==
    /\ pc = "push"
    /\ \E token \in pending :
        /\ heap' = heap_push(heap, Leaf(freqs[token], token))
        /\ pending' = pending \ {token}
    /\ pc' = IF pending' = {} THEN "merge" ELSE "push"
    /\ UNCHANGED <<freqs, merges, tree, freqVars, tableVars, tcodeVars, codecVars>>

\* the for loop over an empty table
PushNone ==
    /\ pc = "push"
    /\ pending = {}
    /\ pc' = "merge"
    /\ UNCHANGED <<freqs, freqVars, treeVars, tableVars, tcodeVars, codecVars>>

\* while heap.len() > 1 { ... }
MergeStep ==
    /\ pc = "merge"
    /\ Len(heap) > 1
    /\ heap' = merge_step(heap)
    /\ merges' = merges + 1
    /\ UNCHANGED <<pc, freqs, pending, tree, freqVars, tableVars, tcodeVars, codecVars>>

\* heap.pop().unwrap().0
Return ==
    /\ pc = "merge"
    /\ Len(heap) <= 1
    /\ LET p == heap_pop(heap)
       IN  /\ tree' = p.item
           /\ heap' = p.heap
           /\ pc' = IF p.item = <<>> THEN "panicked" ELSE "built"
    /\ UNCHANGED <<freqs, pending, merges, freqVars, tableVars, tcodeVars, codecVars>>

\* let encoder = tree.to_encoder();
ToEncoder ==
    /\ pc = "built"
    /\ encoder' = to_encoder(tree[1])
    /\ pc' = "encoder"
    /\ UNCHANGED <<freqs, decoder, freqVars, treeVars, tcodeVars, codecVars>>

\* let decoder = tree.to_decoder(Some(&encoder));
ToDecoder ==
    /\ pc = "encoder"
    /\ decoder' \in decoders(encoder)
    /\ pc' = "tables"
    /\ UNCHANGED <<freqs, encoder, freqVars, treeVars, tcodeVars, codecVars>>

\* let encoded = tree.encode(test_arr);
TreeEncode ==
    /\ pc = "tables"
    /\ \E items \in BoundedSeq(DOMAIN freqs, MaxData) :
        /\ tdata' = items
        /\ tcoded' = tree_encode(tree[1], items)
    /\ pc' = "encoded"
    /\ UNCHANGED <<freqs, tdecoded, freqVars, treeVars, tableVars, codecVars>>

\* let decoded = tree.decode(&encoded);
TreeDecode ==
    /\ pc = "encoded"
    /\ \E dec \in decoders(to_encoder(tree[1])) : tdecoded' = tree_decode(dec, tcoded)
    /\ pc' = "decoded"
    /\ UNCHANGED <<freqs, tdata, tcoded, freqVars, treeVars, tableVars, codecVars>>

NextTree ==
    \/ PushLeaf
    \/ PushNone
    \/ MergeStep
    \/ Return
    \/ ToEncoder
    \/ ToDecoder
    \/ TreeEncode
    \/ TreeDecode

SpecTree == InitTree /\ [][NextTree]_vars

(***************************************************************************)
(* Properties of the tree builder and the tables (SpecTree).               *)
(***************************************************************************)
AfterEncoder == pc \in {"encoder", "tables", "encoded", "decoded"}

AfterDecoder == pc \in {"tables", "encoded", "decoded"}

AfterBuild == pc \in {"built"} \/ AfterEncoder

NumSymbols == Cardinality(DOMAIN freqs)

\* every tree the builder holds: the heap's nodes and the returned root
HeldTrees == {heap[i] : i \in 1..Len(heap)} \cup {tree[i] : i \in 1..Len(tree)}

\* C2: in the encoder built from the tree, no codeword is a bit-prefix of
\* another symbol's codeword, the encoder has one entry per symbol of the
\* table, and the decoder has as many entries as the encoder.
C2_PrefixFree ==
    /\ AfterEncoder =>
        /\ DOMAIN encoder = DOMAIN freqs
        /\ \A A, B \in DOMAIN encoder :
               A # B => ~IsPrefix(encoder[A], encoder[B])
    /\ AfterDecoder =>
        /\ Cardinality(DOMAIN decoder) = Cardinality(DOMAIN encoder)
        /\ \A A \in DOMAIN encoder : decoder[encoder[A]] = A

C2_Witness ==
    /\ pc = "tables"
    /\ NumSymbols = 4
    /\ \E A, B \in DOMAIN encoder :
           A # B /\ freqs[A] = freqs[B] /\ Len(encoder[A]) # Len(encoder[B])

\* C4: a table with exactly one symbol gives a single leaf whose symbol has
\* a 1-bit codeword.
C4_SingleSymbolOneBit ==
    (AfterEncoder /\ NumSymbols = 1) =>
        /\ tree[1].kind = "Leaf"
        /\ \A s \in DOMAIN encoder : Len(encoder[s]) = 1

\* the table's keys in the fixed enumeration of the symbols
RefOrder(table) == SelectSeq(SymbolOrder, LAMBDA s : s \in DOMAIN table)

\* C5: the encoder does not depend on the order in which the table's
\* entries reach the priority queue: it is the encoder obtained with the
\* entries pushed in the fixed enumeration order.
C5_Deterministic ==
    AfterEncoder =>
        encoder = to_encoder(build_huffman_tree(freqs, RefOrder(freqs))[1])

\* the weighted length of a code for a table
Cost(table, code) ==
    SumOver([s \in DOMAIN table |-> table[s] * Len(code[s])], DOMAIN table)

\* codewords considered for the competing codes
MaxCodeLen == Cardinality(Symbols) - 1

Codewords == BoundedSeq({0, 1}, MaxCodeLen)

Comparable(c, d) == IsPrefix(c, d) \/ IsPrefix(d, c)

SetMin(S) == CHOOSE x \in S : \A y \in S : x <= y

\* the least weighted length of a prefix-free code giving the symbols of
\* `rest` codewords of `free`, the codewords comparable with none in use
\* (`none`, a value above every cost, when there is no such code)
RECURSIVE MinCostFrom(_, _, _, _)
MinCostFrom(table, rest, free, none) ==
    IF rest = {} THEN 0
    ELSE LET s == CHOOSE y \in rest : TRUE
         IN  SetMin({none} \cup
                    {table[s] * Len(c)
                        + MinCostFrom(table, rest \ {s},
                                      {d \in free : ~Comparable(c, d)}, none) :
                        c \in free})

MinCost(table) ==
    MinCostFrom(table, DOMAIN table, Codewords, Total(table) * (MaxCodeLen + 1))

\* C6: with at least two symbols the encoder's weighted length is the least
\* among the prefix-free codes, and the golden table gives lengths 1, 2, 3, 3.
C6_Optimal ==
    (pc = "encoder" /\ NumSymbols >= 2) =>
        /\ Cost(freqs, encoder) = MinCost(freqs)
        /\ freqs = GoldenTable =>
            /\ Len(encoder["a"]) = 1
            /\ Len(encoder["b"]) = 2
            /\ Len(encoder["c"]) = 3
            /\ Len(encoder["d"]) = 3

C6_Witness ==
    /\ pc = "encoder"
    /\ NumSymbols = 4
    /\ freqs # GoldenTable
    /\ \E s \in DOMAIN freqs : Len(encoder[s]) = 3
    /\ \E s, t \in DOMAIN freqs : freqs[s] # freqs[t]

\* C7: the builder run on an empty table ends with an EmptyAlphabetError.
C7_EmptyAlphabetError ==
    (freqs = EmptyMap /\ pc \notin {"push", "merge"}) => pc = "EmptyAlphabetError"

\* C9: during the merge loop the queue's frequencies sum to the table's
\* total and every internal node's frequency is the sum of its children's;
\* a non-empty table of n symbols is built in n - 1 merges, and the root
\* has the total as frequency and one leaf per symbol with its count.
C9_Conservation ==
    /\ \A t \in HeldTrees : SumsOk(t)
    /\ pc = "merge" =>
        /\ SeqFreqSum(heap) = Total(freqs)
        /\ NumSymbols >= 1 => merges + Len(heap) = NumSymbols
    /\ AfterBuild =>
        /\ merges = NumSymbols - 1
        /\ tree[1].freq = Total(freqs)
        /\ Len(LeafSeq(tree[1])) = NumSymbols
        /\ {LeafSeq(tree[1])[i] : i \in 1..NumSymbols}
               = {<<s, freqs[s]>> : s \in DOMAIN freqs}

C9_Witness ==
    /\ pc = "built"
    /\ merges = 3
    /\ tree[1].freq = 4 * MaxFreq

\* the path from the root of t to the leaf of token: 0 left, 1 right
RECURSIVE HasToken(_, _)
HasToken(t, token) ==
    IF t.kind = "Leaf" THEN t.token = token
    ELSE HasToken(t.left, token) \/ HasToken(t.right, token)

RECURSIVE PathTo(_, _)
PathTo(t, token) ==
    IF t.kind = "Leaf" THEN <<>>
    ELSE IF HasToken(t.left, token) THEN <<0>> \o PathTo(t.left, token)
         ELSE <<1>> \o PathTo(t.right, token)

RECURSIVE LeftIsLower(_)
LeftIsLower(t) ==
    t.kind = "Node" =>
        /\ t.left.freq <= t.right.freq
        /\ LeftIsLower(t.left)
        /\ LeftIsLower(t.right)

\* C10: in every internal node the left child is the one of lower
\* frequency (the node removed first), a symbol's codeword is its path
\* from the root with 0 for left and 1 for right, the golden table gives
\* a=0, b=11, c=101, d=100 with the decoder mapping 101 to c, and
\* Tree::decode undoes Tree::encode.
C10_ShapeAndBits ==
    /\ \A t \in HeldTrees : LeftIsLower(t)
    /\ AfterEncoder =>
        /\ \A s \in DOMAIN freqs : encoder[s] = PathTo(tree[1], s)
        /\ freqs = GoldenTable =>
               encoder = [s \in Symbols |->
                             CASE s = "a" -> <<0>> [] s = "b" -> <<1, 1>>
                               [] s = "c" -> <<1, 0, 1>> [] OTHER -> <<1, 0, 0>>]
    /\ (AfterDecoder /\ freqs = GoldenTable) => decoder[<<1, 0, 1>>] = "c"
    /\ pc = "decoded" => tdecoded = tdata

C10_Witness ==
    /\ pc = "decoded"
    /\ freqs = GoldenTable
    /\ Len(tdata) = 2
    /\ tdata[1] # tdata[2]
    /\ tcoded = << <<1, 0, 1>>, <<0>> >>

(***************************************************************************)
(* Lines and tokenizers.                                                   *)
(***************************************************************************)
\* the lines the counter and the codec are run on:
\* "", "aaaa", "a ab", "a b", "aab", "b  a"
LinePool ==
    { <<>>,
      <<"a", "a", "a", "a">>,
      <<"a", " ", "a", "b">>,
      <<"a", " ", "b">>,
      <<"a", "a", "b">>,
      <<"b", " ", " ", "a">> }

\* str::split_ascii_whitespace: cur is the word being read, acc the words read
RECURSIVE split_loop(_, _, _)
split_loop(line, cur, acc) ==
    IF line = <<>>
    THEN IF cur = <<>> THEN acc ELSE Append(acc, cur)
    ELSE IF Head(line) = " "
         THEN split_loop(Tail(line), <<>>, IF cur = <<>> THEN acc ELSE Append(acc, cur))
         ELSE split_loop(Tail(line), Append(cur, Head(line)), acc)

split_ascii_whitespace(line) == split_loop(line, <<>>, <<>>)

\* line.chars() / line.split_ascii_whitespace()
tokenize(m, line) == IF m = "chars" THEN line ELSE split_ascii_whitespace(line)

\* [String]::join(" ")
RECURSIVE join(_)
join(words) ==
    IF words = <<>> THEN <<>>
    ELSE IF Len(words) = 1 THEN words[1]
    ELSE words[1] \o <<" ">> \o join(Tail(words))

\* the detokenizers: |x: Vec<char>| x.into_iter().collect() and
\* |x: Vec<String>| x.join(" ")
tokens_to_line(m, toks) == IF m = "chars" THEN toks ELSE join(toks)

(***************************************************************************)
(* learn_char_frequencies / learn_word_frequencies: the fold and reduce    *)
(* closures handed to rayon.                                               *)
(***************************************************************************)
\* *freqs.entry(k).or_insert(0) += n
add_count(table, k, n) ==
    MapInsert(table, k, (IF k \in DOMAIN table THEN table[k] ELSE 0) + n)

RECURSIVE count_tokens(_, _)
count_tokens(table, toks) ==
    IF toks = <<>> THEN table
    ELSE count_tokens(add_count(table, Head(toks), 1), Tail(toks))

\* the fold closure: one line into a local table
fold_op(m, table, line) == count_tokens(table, tokenize(m, line))

RECURSIVE reduce_loop(_, _, _)
reduce_loop(freqs1, freqs2, keys) ==
    IF keys = {} THEN freqs1
    ELSE LET k == CHOOSE x \in keys : TRUE
         IN  reduce_loop(add_count(freqs1, k, freqs2[k]), freqs2, keys \ {k})

\* a reduce closure that stores the second table's count
reduce_op_overwrite(freqs1, freqs2) ==
    [k \in DOMAIN freqs1 \cup DOMAIN freqs2 |->
        IF k \in DOMAIN freqs2 THEN freqs2[k] ELSE freqs1[k]]

\* the reduce closure: the second table added into the first
reduce_op(freqs1, freqs2) == reduce_loop(freqs1, freqs2, DOMAIN freqs2)

\* the count made by one worker folding every line in order
RECURSIVE learn_frequencies(_, _, _)
learn_frequencies(m, table, ls) ==
    IF ls = <<>> THEN table
    ELSE learn_frequencies(m, fold_op(m, table, Head(ls)), Tail(ls))

RemoveAt(s, i) == SubSeq(s, 1, i - 1) \o SubSeq(s, i + 1, Len(s))

(***************************************************************************)
(* The frequency counter under rayon: lines are folded into local tables   *)
(* by workers, and the local tables are reduced pairwise.                  *)
(***************************************************************************)
InitFreq ==
    /\ pc = "count"
    /\ lines \in BoundedSeq(LinePool, MaxLines)
    /\ mode \in {"chars", "words"}
    /\ freqs = EmptyMap
    /\ unfolded = 1..Len(lines)
    /\ locals = <<>>
    /\ owner = [i \in 1..Len(lines) |-> 0]
    /\ pending = {}
    /\ heap = <<>>
    /\ merges = 0
    /\ tree = <<>>
    /\ encoder = EmptyMap
    /\ decoder = EmptyMap
    /\ tdata = <<>>
    /\ tcoded = <<>>
    /\ tdecoded = <<>>
    /\ CodecIdle

\* the identity closure || HashMap::new(): a worker starts a local table
Identity ==
    /\ pc = "count"
    /\ Len(locals) < MaxWorkers
    /\ locals' = Append(locals, EmptyMap)
    /\ UNCHANGED <<pc, lines, mode, freqs, unfolded, owner, treeVars, tableVars,
                   tcodeVars, codecVars>>

\* the fold closure on one line
Fold ==
    /\ pc = "count"
    /\ \E w \in 1..Len(locals), i \in unfolded :
        /\ locals' = [locals EXCEPT ![w] = fold_op(mode, locals[w], lines[i])]
        /\ unfolded' = unfolded \ {i}
        /\ owner' = [owner EXCEPT ![i] = w]
    /\ UNCHANGED <<pc, lines, mode, freqs, treeVars, tableVars, tcodeVars, codecVars>>

\* the reduce closure on two local tables
Reduce ==
    /\ pc = "count"
    /\ unfolded = {}
    /\ \E w1, w2 \in 1..Len(locals) :
        /\ w1 # w2
        /\ locals' = RemoveAt([locals EXCEPT ![w1] = reduce_op(locals[w1], locals[w2])], w2)
    /\ UNCHANGED <<pc, lines, mode, freqs, unfolded, owner, treeVars, tableVars,
                   tcodeVars, codecVars>>

\* the value of the reduce: the last table, or the identity when there is none
Counted ==
    /\ pc = "count"
    /\ unfolded = {}
    /\ Len(locals) <= 1
    /\ freqs' = IF locals = <<>> THEN EmptyMap ELSE locals[1]
    /\ pc' = "counted"
    /\ UNCHANGED <<lines, mode, unfolded, locals, owner, treeVars, tableVars,
                   tcodeVars, codecVars>>

NextFreq ==
    \/ Identity
    \/ Fold
    \/ Reduce
    \/ Counted

SpecFreq == InitFreq /\ [][NextFreq]_vars

\* the tokens of all lines, in order
RECURSIVE AllTokens(_, _)
AllTokens(m, ls) ==
    IF ls = <<>> THEN <<>> ELSE tokenize(m, Head(ls)) \o AllTokens(m, Tail(ls))

Occurrences(toks, k) == Cardinality({i \in 1..Len(toks) : toks[i] = k})

\* C8: whatever the partition of the lines among the workers and the order
\* of the merges, the table returned is the one a single sequential count
\* gives: each symbol that occurs, with its number of occurrences over all
\* lines; no lines give the empty table.
C8_ScheduleIndependent ==
    pc = "counted" =>
        LET toks == AllTokens(mode, lines)
        IN  /\ freqs = learn_frequencies(mode, EmptyMap, lines)
            /\ DOMAIN freqs = {toks[i] : i \in 1..Len(toks)}
            /\ \A k \in DOMAIN freqs : freqs[k] = Occurrences(toks, k)
            /\ lines = <<>> => freqs = EmptyMap

\* two lines with a common word, folded into different local tables
C8_Witness ==
    /\ pc = "counted"
    /\ mode = "words"
    /\ \E i, j \in 1..Len(lines) :
        /\ owner[i] # owner[j]
        /\ \E k \in DOMAIN freqs :
            /\ Occurrences(tokenize(mode, lines[i]), k) >= 1
            /\ Occurrences(tokenize(mode, lines[j]), k) >= 1
            /\ freqs[k] >= 2

(***************************************************************************)
(* compress_as_chars / compress_as_words and decompress.  The container    *)
(* is the pair (encoder, data) that rmp_serde writes and reads back; a     *)
(* line of the stored payload may lose its last bit before it is read.     *)
(***************************************************************************)
\* .map(|ch| encoder.get(&ch).unwrap().clone()).fold(BitVec::new(), extend)
RECURSIVE encode_line(_, _)
encode_line(enc, toks) ==
    IF toks = <<>> THEN <<>>
    ELSE enc[Head(toks)] \o encode_line(enc, Tail(toks))

\* one iteration of `while pos < line.len()` on st = [pos, candidate, tokens]
decode_bit(dec, line, st) ==
    LET cand == Append(st.candidate, line[st.pos + 1])
    IN  IF cand \in DOMAIN dec
        THEN [pos |-> st.pos + 1, candidate |-> <<>>,
              tokens |-> Append(st.tokens, dec[cand])]
        ELSE [pos |-> st.pos + 1, candidate |-> cand, tokens |-> st.tokens]

InitCodec ==
    /\ pc = "start"
    /\ lines \in BoundedSeq(LinePool, MaxCodecLines)
    /\ mode \in {"chars", "words"}
    /\ freqs = EmptyMap
    /\ unfolded = {}
    /\ locals = <<>>
    /\ owner = <<>>
    /\ pending = {}
    /\ heap = <<>>
    /\ merges = 0
    /\ tree = <<>>
    /\ encoder = EmptyMap
    /\ decoder = EmptyMap
    /\ tdata = <<>>
    /\ tcoded = <<>>
    /\ tdecoded = <<>>
    /\ CodecIdle

\* compress_as_chars(lines) / compress_as_words(lines)
Compress ==
    /\ pc = "start"
    /\ LET table == learn_frequencies(mode, EmptyMap, lines)
       IN  /\ freqs' = table
           /\ \E order \in Perms(DOMAIN table) :
                LET built == build_huffman_tree(table, order)
                IN  /\ tree' = built
                    /\ IF built = <<>>
                       THEN /\ pc' = "panicked"
                            /\ UNCHANGED <<encoder, data>>
                       ELSE /\ pc' = "compressed"
                            /\ encoder' = to_encoder(built[1])
                            /\ data' = [i \in 1..Len(lines) |->
                                   encode_line(to_encoder(built[1]),
                                               tokenize(mode, lines[i]))]
    /\ UNCHANGED <<freqVars, pending, heap, merges, decoder,
                   tcodeVars, truncated, pos, candidate, tokens, out>>

\* the stored payload of one line loses its last bit
Truncate ==
    /\ pc = "compressed"
    /\ truncated = 0
    /\ \E i \in 1..Len(data) :
        /\ data[i] # <<>>
        /\ data' = [data EXCEPT ![i] = SubSeq(data[i], 1, Len(data[i]) - 1)]
        /\ truncated' = i
    /\ UNCHANGED <<pc, freqVars, freqs, treeVars, tableVars, tcodeVars,
                   pos, candidate, tokens, out>>

\* decompress: the container is read and the decoder built from its encoder
Decompress ==
    /\ pc = "compressed"
    /\ decoder' \in decoders(encoder)
    /\ pos' = [i \in 1..Len(data) |-> 0]
    /\ candidate' = [i \in 1..Len(data) |-> <<>>]
    /\ tokens' = [i \in 1..Len(data) |-> <<>>]
    /\ out' = [i \in 1..Len(data) |-> <<>>]
    /\ pc' = "decoding"
    /\ UNCHANGED <<freqVars, freqs, treeVars, encoder, tcodeVars, data, truncated>>

\* one iteration of the scan of one line (lines are scanned in parallel)
DecodeBit ==
    /\ pc = "decoding"
    /\ \E i \in 1..Len(data) :
        /\ pos[i] < Len(data[i])
        /\ LET st == decode_bit(decoder, data[i],
                         [pos |-> pos[i], candidate |-> candidate[i],
                          tokens |-> tokens[i]])
           IN  /\ pos' = [pos EXCEPT ![i] = st.pos]
               /\ candidate' = [candidate EXCEPT ![i] = st.candidate]
               /\ tokens' = [tokens EXCEPT ![i] = st.tokens]
    /\ UNCHANGED <<pc, freqVars, freqs, treeVars, tableVars, tcodeVars,
                   data, truncated, out>>

\* the scan of one line ends: tokens_to_line(tokens)
LineDone ==
    /\ pc = "decoding"
    /\ \E i \in 1..Len(data) :
        /\ pos[i] >= Len(data[i])
        /\ out[i] = <<>>
        /\ out' = [out EXCEPT ![i] = <<tokens_to_line(mode, tokens[i])>>]
    /\ UNCHANGED <<pc, freqVars, freqs, treeVars, tableVars, tcodeVars,
                   data, truncated, pos, candidate, tokens>>

\* .collect(); Ok(lines)
Collect ==
    /\ pc = "decoding"
    /\ \A i \in 1..Len(data) : out[i] # <<>>
    /\ pc' = "done"
    /\ UNCHANGED <<freqVars, freqs, treeVars, tableVars, tcodeVars, codecVars>>

NextCodec ==
    \/ Compress
    \/ Truncate
    \/ Decompress
    \/ DecodeBit
    \/ LineDone
    \/ Collect

SpecCodec == InitCodec /\ [][NextCodec]_vars

\* the lines decompress returned
Decoded == [i \in 1..Len(out) |-> out[i][1]]

\* a line whose words are separated by single spaces
SingleSpaced(line) ==
    /\ line # <<>> => (line[1] # " " /\ line[Len(line)] # " ")
    /\ \A j \in 1..(Len(line) - 1) : ~(line[j] = " " /\ line[j + 1] = " ")

\* C1: a non-empty set of lines (in word mode: lines whose words are
\* separated by single spaces) that is compressed and then decompressed
\* comes back as the same lines in the same order.
C1_RoundTrip ==
    ( /\ pc = "done"
      /\ truncated = 0
      /\ lines # <<>>
      /\ mode = "words" => \A i \in 1..Len(lines) : SingleSpaced(lines[i]) )
    => Decoded = lines

\* C3: a line whose bits run out while a non-empty candidate remains is not
\* returned as a decoded line: decompress does not end with Ok.
C3_CorruptionDetected ==
    pc = "done" => \A i \in 1..Len(data) : candidate[i] = <<>>

=============================================================================
